---- MODULE Spec2Model ----
(***************************************************************************)
(* A model of js/app.js of ResumeGenerator: the debounced PDF preview      *)
(* (updatePreview, downloadPdf), the form editor (makeFormBread) and the   *)
(* layout performed by generatePdf, with its helpers formatDate and the    *)
(* two section sorts.                                                      *)
(*                                                                         *)
(* Strings are sequences of atoms.  An atom is a single character          *)
(* ("0".."9", "-", " ", "\n") or an indivisible run of letters ("Acme",    *)
(* "Present").  The character-level functions of the code (split, trim,    *)
(* Number, localeCompare) look at the atoms one by one.                    *)
(*                                                                         *)
(* Lengths are integers in units of 0.0000002 mm (PerMM units are 1 mm),   *)
(* which makes every line height of the code an exact integer.             *)
(***************************************************************************)
EXTENDS Integers, Sequences, FiniteSets, TLC

VARIABLES
    resume,          \* the global resume object (app.js:50)
    currentPdfBlob,  \* the calls generatePdf made on the jsPDF document, or Null
    updateTimeout,   \* the id of the last timer set by updatePreview, or NoTimer
    timers,          \* the pending timers of the event loop: [id, due]
    nextTimerId,     \* the id the next setTimeout returns
    clock,           \* milliseconds since the page was loaded
    previewClass,    \* the classList of the element pdf-preview
    today,           \* what `new Date()` yields when generatePdf runs
    currentItem,     \* makeFormBread: the oid of the selected record, or NoItem
    localArray,      \* makeFormBread: the oids listed in the select element
    form,            \* makeFormBread: the values of the form's elements
    nextOid,         \* the identity of the next object saveItem creates
    localStorage,    \* the item resumeData of localStorage, or NoRecord
    downloaded,      \* what the last downloadPdf handed to the browser, or NoRecord
    dateStr,         \* the argument of a direct call of formatDate
    formatted,       \* its result, or Null
    timerRuns,       \* how many timers of updatePreview have fired
    cancelled,       \* how many pending timers clearTimeout has removed
    file,            \* loadJson: the text of the file that was chosen, or NoRecord
    exported,        \* what the last downloadJson handed to the browser, or NoRecord
    loadErrors,      \* how many times loadJson has reported an error (alert)
    reloads          \* how many times location.reload has been called

timerVars == << updateTimeout, timers, nextTimerId, previewClass, timerRuns, cancelled >>

formVars == << currentItem, localArray, form, nextOid >>

importVars == << file, exported, loadErrors, reloads >>

vars == << resume, currentPdfBlob, timerVars, clock, today, formVars, localStorage,
           downloaded, dateStr, formatted, importVars >>

\* null, where a sequence is expected, where a record is expected, and
\* where a timer id or the identity of an object is expected
Null == <<"#null">>

NoRecord == [null |-> TRUE]

NoTimer == 0

NoItem == 0

\* A missing property: JavaScript's undefined.
Undefined == <<"#undefined">>

(***************************************************************************)
(* Strings                                                                 *)
(***************************************************************************)
Digits == <<"0", "1", "2", "3", "4", "5", "6", "7", "8", "9">>

DigitSet == {Digits[i] : i \in 1..10}

IsDigit(c) == c \in DigitSet

DigitVal(c) == (CHOOSE i \in 1..10 : Digits[i] = c) - 1

IsSpace(c) == c \in {" ", "\n"}

\* !x for a string-or-undefined x.
Falsy(s) == s = Undefined \/ s = <<>>

Truthy(s) == ~Falsy(s)

\* x || d
OrElse(s, d) == IF Falsy(s) THEN d ELSE s

\* `${x}`
Interp(s) == IF s = Undefined THEN <<"undefined">> ELSE s

RECURSIVE TrimLeft(_)
TrimLeft(s) ==
    IF s # <<>> /\ IsSpace(Head(s)) THEN TrimLeft(Tail(s)) ELSE s

RECURSIVE TrimRight(_)
TrimRight(s) ==
    IF s # <<>> /\ IsSpace(s[Len(s)]) THEN TrimRight(SubSeq(s, 1, Len(s) - 1)) ELSE s

\* String.prototype.trim
Trim(s) == TrimRight(TrimLeft(s))

\* String.prototype.split(sep) for a one-character separator: the pieces
\* between the separators, empty pieces included.
RECURSIVE SplitFrom(_, _, _)
SplitFrom(s, sep, cur) ==
    IF s = <<>> THEN <<cur>>
    ELSE IF Head(s) = sep THEN <<cur>> \o SplitFrom(Tail(s), sep, <<>>)
    ELSE SplitFrom(Tail(s), sep, Append(cur, Head(s)))

Split(s, sep) == SplitFrom(s, sep, <<>>)

\* Array.prototype.join
RECURSIVE Join(_, _)
Join(parts, sep) ==
    IF parts = <<>> THEN <<>>
    ELSE IF Len(parts) = 1 THEN parts[1]
    ELSE parts[1] \o sep \o Join(Tail(parts), sep)

\* Numbers as Number() yields them: NaN or a non-negative integer.
NaN == [nan |-> TRUE, val |-> 0]

Num(n) == [nan |-> FALSE, val |-> n]

RECURSIVE DigitsValue(_, _)
DigitsValue(s, acc) ==
    IF s = <<>> THEN acc ELSE DigitsValue(Tail(s), acc * 10 + DigitVal(Head(s)))

\* Number(str), as Array.prototype.map(Number) applies it to the pieces of
\* split('-'): white space is trimmed, the empty string is 0, a run of
\* decimal digits is its value, anything else is NaN.  A missing piece
\* (undefined) stays undefined in the destructuring and is falsy like NaN.
ToNumber(s) ==
    IF s = Undefined THEN NaN
    ELSE LET t == Trim(s)
         IN  IF t = <<>> THEN Num(0)
             ELSE IF \A i \in 1..Len(t) : IsDigit(t[i]) THEN Num(DigitsValue(t, 0))
             ELSE NaN

\* !n for a number
FalsyNum(n) == n.nan \/ n.val = 0

\* Number.prototype.toString for a non-negative integer
RECURSIVE NatToString(_)
NatToString(n) ==
    IF n < 10 THEN <<Digits[n + 1]>>
    ELSE Append(NatToString(n \div 10), Digits[(n % 10) + 1])

(***************************************************************************)
(* formatDate (app.js:189-195)                                             *)
(***************************************************************************)
MonthNames ==
    <<"Jan", "Feb", "Mar", "Apr", "May", "Jun",
      "Jul", "Aug", "Sep", "Oct", "Nov", "Dec">>

\* new Date(year, monthIndex): a year of 0..99 means 1900 + year, and a month
\* index beyond 11 carries into the year.  The result is [year, month 1..12].
NewDateYM(year, monthIndex) ==
    LET y0 == IF year <= 99 THEN 1900 + year ELSE year
    IN  [year |-> y0 + (monthIndex \div 12), month |-> (monthIndex % 12) + 1]

\* toLocaleDateString('en-US', {month: 'short', year: 'numeric'})
ToLocaleMonthYear(d) == <<MonthNames[d.month], " ">> \o NatToString(d.year)

formatDate(s) ==
    IF Falsy(s) \/ s = <<"Present">> THEN OrElse(s, <<"Present">>)
    ELSE LET parts == Split(s, "-")
             year  == ToNumber(parts[1])
             month == ToNumber(IF Len(parts) >= 2 THEN parts[2] ELSE Undefined)
         IN  IF FalsyNum(year) \/ FalsyNum(month) THEN s
             ELSE ToLocaleMonthYear(NewDateYM(year.val, month.val - 1))

(***************************************************************************)
(* The section sorts (app.js:287-289, 343-361)                             *)
(***************************************************************************)
\* The collation order of the atoms that occur in the compared fields
\* (dates): punctuation before digits before letters, as both the code-point
\* order and the root collation of localeCompare have it.
AtomOrder ==
    <<"-", "0", "1", "2", "3", "4", "5", "6", "7", "8", "9", "Fall", "Present">>

AtomRank(c) == CHOOSE i \in 1..Len(AtomOrder) : AtomOrder[i] = c

\* a.localeCompare(b): negative, zero or positive
RECURSIVE localeCompare(_, _)
localeCompare(a, b) ==
    IF a = <<>> /\ b = <<>> THEN 0
    ELSE IF a = <<>> THEN -1
    ELSE IF b = <<>> THEN 1
    ELSE IF AtomRank(Head(a)) < AtomRank(Head(b)) THEN -1
    ELSE IF AtomRank(Head(a)) > AtomRank(Head(b)) THEN 1
    ELSE localeCompare(Tail(a), Tail(b))

\* A variant of educationCompare that puts the oldest date first
educationCompareOldestFirst(a, b) ==
    localeCompare(OrElse(a.date, <<>>), OrElse(b.date, <<>>))

\* Array.prototype.sort is stable: an element goes behind every element that
\* does not compare greater than it.
educationCompare(a, b) ==
    localeCompare(OrElse(b.date, <<>>), OrElse(a.date, <<>>))

RECURSIVE InsertEducation(_, _)
InsertEducation(sorted, x) ==
    IF sorted = <<>> THEN <<x>>
    ELSE IF educationCompare(sorted[Len(sorted)], x) <= 0 THEN Append(sorted, x)
    ELSE Append(InsertEducation(SubSeq(sorted, 1, Len(sorted) - 1), x),
                sorted[Len(sorted)])

RECURSIVE SortEducationFrom(_, _)
SortEducationFrom(rest, sorted) ==
    IF rest = <<>> THEN sorted
    ELSE SortEducationFrom(Tail(rest), InsertEducation(sorted, Head(rest)))

sortedEducation(education) == SortEducationFrom(education, <<>>)

OtherCategoryOrder == 99

\* categoryOrder[category] || 99.  The categories are strings that name no
\* property of Object.prototype.
categoryOrder(category) ==
    IF category = <<"Work", " ", "Experience">> THEN 1
    ELSE IF category = <<"Contract">> THEN 2
    ELSE IF category = <<"Internship">> THEN 3
    ELSE IF category = <<"Project">> THEN 4
    ELSE IF category = <<"Projects">> THEN 4
    ELSE IF category = <<"Volunteer">> THEN 5
    ELSE OtherCategoryOrder

\* A variant of experienceCompare that puts the oldest start date first
experienceCompareOldestFirst(a, b) ==
    LET orderA == categoryOrder(a.category)
        orderB == categoryOrder(b.category)
    IN  IF orderA # orderB THEN orderA - orderB
        ELSE localeCompare(OrElse(a.startDate, <<>>), OrElse(b.startDate, <<>>))

experienceCompare(a, b) ==
    LET orderA == categoryOrder(a.category)
        orderB == categoryOrder(b.category)
    IN  IF orderA # orderB THEN orderA - orderB
        ELSE localeCompare(OrElse(b.startDate, <<>>), OrElse(a.startDate, <<>>))

RECURSIVE InsertExperience(_, _)
InsertExperience(sorted, x) ==
    IF sorted = <<>> THEN <<x>>
    ELSE IF experienceCompare(sorted[Len(sorted)], x) <= 0 THEN Append(sorted, x)
    ELSE Append(InsertExperience(SubSeq(sorted, 1, Len(sorted) - 1), x),
                sorted[Len(sorted)])

RECURSIVE SortExperienceFrom(_, _)
SortExperienceFrom(rest, sorted) ==
    IF rest = <<>> THEN sorted
    ELSE SortExperienceFrom(Tail(rest), InsertExperience(sorted, Head(rest)))

sortedExperience(experience) == SortExperienceFrom(experience, <<>>)

(***************************************************************************)
(* generatePdf (app.js:168-450)                                            *)
(*                                                                         *)
(* The result is the sequence of calls made on the jsPDF document.  A call *)
(* is [fn, s, n, x, y, rec]: s a string argument (the text, the url, the   *)
(* font style, the colour), n a number argument (the font size in half     *)
(* points, the number of lines of a text), x the horizontal anchor, y the  *)
(* vertical position, rec the oid of the record the call was made for.     *)
(* Horizontal positions that jsPDF's font metrics decide (getTextWidth)    *)
(* are the anchor "flow".                                                  *)
(***************************************************************************)
PerMM == 5 * 1000 * 1000

\* 0.352778 mm, the height of a point, in units of 1/500000 mm
PtHeight == 176389

\* (fontSize * 0.352778) * spacing, for a font size in half points and a
\* spacing in hundredths
getLineHeightMM(fontSize2, spacing100) == (fontSize2 * spacing100 * PtHeight) \div 20

NameFontSize2 == 28

ContactFontSize2 == 24

sectionFontSize2 == 21

HeaderSpacing100 == 115

sectionSpacing100 == 100

sectionLineHeight == getLineHeightMM(sectionFontSize2, sectionSpacing100)

PageTop == 20 * PerMM

PageFloor == 280 * PerMM

MAX_NUMBER_OF_BULLETS_TO_DISPLAY == 8

\* "* " stands for the bullet sign U+2022 and a space.
BulletPrefix == <<"*", " ">>

Call(fn, s, n, x, y, rec) ==
    [fn |-> fn, s |-> s, n |-> n, x |-> x, y |-> y, rec |-> rec]

SetFont(style) == Call("setFont", <<style>>, 0, "", 0, 0)

SetFontSize(size2) == Call("setFontSize", <<>>, size2, "", 0, 0)

SetTextColor(color) == Call("setTextColor", <<color>>, 0, "", 0, 0)

SetDrawColor(color) == Call("setDrawColor", <<color>>, 0, "", 0, 0)

Text(s, x, y, rec) == Call("text", s, 1, x, y, rec)

TextLines(s, lines, x, y, rec) == Call("text", s, lines, x, y, rec)

Link(url, y, rec) == Call("link", url, 0, "flow", y - 4 * PerMM, rec)

Line(y, rec) == Call("line", <<>>, 0, "flow", y + (PerMM \div 2), rec)

AddPage == Call("addPage", <<>>, 0, "", 0, 0)

\* doc.splitTextToSize(text, width).length: one line, one more for every
\* line break in the text and one more for every atom "~" of the text, which
\* stands for a run of words that fills the width.
RECURSIVE CountAtoms(_, _)
CountAtoms(s, set) ==
    IF s = <<>> THEN 0
    ELSE (IF Head(s) \in set THEN 1 ELSE 0) + CountAtoms(Tail(s), set)

splitTextToSizeLength(s) == 1 + CountAtoms(s, {"\n", "~"})

\* str.replaceAll(/\s+/g, '')
RECURSIVE RemoveSpaces(_)
RemoveSpaces(s) ==
    IF s = <<>> THEN <<>>
    ELSE IF IsSpace(Head(s)) THEN RemoveSpaces(Tail(s))
    ELSE <<Head(s)>> \o RemoveSpaces(Tail(s))

\* app.js:211-225
RECURSIVE ContactEntries(_)
ContactEntries(contacts) ==
    IF contacts = <<>> THEN <<>>
    ELSE (IF Truthy(Head(contacts).name)
          THEN <<[text |-> Head(contacts).name, link |-> Head(contacts).url]>>
          ELSE <<>>) \o ContactEntries(Tail(contacts))

contactParts(r) ==
    (IF Truthy(r.phone)
     THEN <<[text |-> r.phone, link |-> <<"tel", ":">> \o RemoveSpaces(r.phone)]>>
     ELSE <<>>)
    \o (IF Truthy(r.email)
        THEN <<[text |-> r.email, link |-> <<"mailto", ":">> \o r.email]>>
        ELSE <<>>)
    \o ContactEntries(r.contacts)

Separator == <<" ", "|", " ">>

\* app.js:242-257, the calls for the parts from index i on
RECURSIVE ContactCalls(_, _, _)
ContactCalls(parts, i, y) ==
    IF i > Len(parts) THEN <<>>
    ELSE <<SetTextColor("blue"), Text(parts[i].text, "flow", y, 0)>>
         \o (IF Truthy(parts[i].link) THEN <<Link(parts[i].link, y, 0)>> ELSE <<>>)
         \o (IF i < Len(parts)
             THEN <<SetTextColor("black"), Text(Separator, "flow", y, 0)>>
             ELSE <<>>)
         \o ContactCalls(parts, i + 1, y)

\* The state of a run of generatePdf: the cursor and the calls made so far.
Doc(y, calls) == [y |-> y, calls |-> calls]

\* app.js:197-204: the name
NameLine(r) ==
    Doc(PageTop + getLineHeightMM(NameFontSize2, HeaderSpacing100),
        << SetFont("normal"), SetFontSize(NameFontSize2), SetFont("bold"),
           Text(OrElse(r.name, <<>>), "center", PageTop, 0) >>)

\* A variant of ContactLine that moves down whether or not it drew anything
ContactLineAlwaysAdvancing(r, d) ==
    LET parts == contactParts(r)
        calls == d.calls \o <<SetFontSize(ContactFontSize2), SetFont("normal")>>
    IN  Doc(d.y + getLineHeightMM(ContactFontSize2, HeaderSpacing100),
            calls \o (IF Len(parts) > 0 THEN ContactCalls(parts, 1, d.y) ELSE <<>>))

\* app.js:206-259: the contact line
ContactLine(r, d) ==
    LET parts == contactParts(r)
        calls == d.calls \o <<SetFontSize(ContactFontSize2), SetFont("normal")>>
    IN  IF Len(parts) > 0
        THEN Doc(d.y + getLineHeightMM(ContactFontSize2, HeaderSpacing100),
                 calls \o ContactCalls(parts, 1, d.y))
        ELSE Doc(d.y, calls)

\* app.js:261-272: the additional text and the gap that ends the header
AdditionalText(r, d) ==
    LET additionalText == IF r.additionalText = Undefined THEN Undefined
                          ELSE Trim(r.additionalText)
        lines == splitTextToSizeLength(additionalText)
        d1 == IF Truthy(additionalText)
              THEN Doc(d.y + lines * getLineHeightMM(ContactFontSize2, HeaderSpacing100),
                       d.calls \o << SetTextColor("black"), SetFontSize(ContactFontSize2),
                                     TextLines(additionalText, lines, "center", d.y, 0) >>)
              ELSE d
    IN  Doc(d1.y + 5 * PerMM, d1.calls)

Header(r) == AdditionalText(r, ContactLine(r, NameLine(r)))

\* new Date(eduDateStr + "-01"), app.js:314: the month the string names, as a
\* count of months, or -1 for an Invalid Date.  "YYYY-MM-01" and "YYYY-01" are
\* the ISO forms the concatenation can give; every other string is taken as
\* an Invalid Date.
eduDate(eduDateStr) ==
    LET parts == Split(eduDateStr, "-")
        allDigits(t, n) == Len(t) = n /\ \A i \in 1..n : IsDigit(t[i])
    IN  IF Len(parts) = 2 /\ allDigits(parts[1], 4) /\ allDigits(parts[2], 2)
           /\ DigitsValue(parts[2], 0) \in 1..12
        THEN DigitsValue(parts[1], 0) * 12 + DigitsValue(parts[2], 0) - 1
        ELSE IF Len(parts) = 1 /\ allDigits(parts[1], 4)
        THEN DigitsValue(parts[1], 0) * 12
        ELSE -1

\* A variant of olderThanThreeYears whose comparison is not strict
notYoungerThanThreeYears(eduDateStr, now) ==
    LET e == eduDate(eduDateStr)
        threeYearsAgo == (now.year - 3) * 12 + now.month - 1
    IN  e >= 0 /\ e <= threeYearsAgo

\* eduDate < threeYearsAgo, app.js:291-293 and 315.  `now` is [year, month,
\* startOfMonth]: startOfMonth says that it is the very first instant of
\* that month.  A comparison with an Invalid Date is false.
olderThanThreeYears(eduDateStr, now) ==
    LET e == eduDate(eduDateStr)
        threeYearsAgo == (now.year - 3) * 12 + now.month - 1
    IN  e >= 0 /\ (e < threeYearsAgo \/ (e = threeYearsAgo /\ ~now.startOfMonth))

\* app.js:296-327: the calls that draw one education record at y
educationLine(edu, y, now) ==
    IF edu.degreeType = <<"Certificate">>
    THEN <<Text(BulletPrefix \o Interp(edu.name), "indent", y, edu.oid)>>
    ELSE LET locationText ==
                 IF Truthy(edu.city) /\ Truthy(edu.state)
                 THEN <<",", " ">> \o edu.city \o <<",", " ">> \o edu.state
                 ELSE IF Truthy(edu.city) THEN <<",", " ">> \o edu.city
                 ELSE IF Truthy(edu.state) THEN <<",", " ">> \o edu.state
                 ELSE <<>>
             leftText == BulletPrefix \o Interp(edu.degreeType) \o <<" ", "in", " ">>
                         \o Interp(edu.category) \o <<" ", "|", " ">>
                         \o Interp(edu.name) \o locationText
             rightText == IF Truthy(edu.date)
                          THEN IF olderThanThreeYears(edu.date, now)
                               THEN <<"Status", " ", "-", " ", "Graduated">>
                               ELSE formatDate(edu.date)
                          ELSE <<>>
         IN  <<Text(leftText, "indent", y, edu.oid)>>
             \o (IF Truthy(rightText) THEN <<Text(rightText, "right", y, edu.oid)>>
                 ELSE <<>>)

\* app.js:329-332: the page-break check of the education loop
educationPageBreak(d) ==
    IF d.y > PageFloor THEN Doc(PageTop, Append(d.calls, AddPage)) ELSE d

\* app.js:295-333
RECURSIVE educationLoop(_, _, _)
educationLoop(records, d, now) ==
    IF records = <<>> THEN d
    ELSE educationLoop(Tail(records),
             educationPageBreak(Doc(d.y + sectionLineHeight,
                                    d.calls \o educationLine(Head(records), d.y, now))),
             now)

\* app.js:274-336
EducationSection(r, d, now) ==
    LET d1 == Doc(d.y + sectionLineHeight,
                  d.calls \o << SetFontSize(sectionFontSize2), SetTextColor("black"),
                                SetFont("bold"),
                                Text(<<"Education", " ", "and", " ", "Certification">>,
                                     "margin", d.y, 0),
                                SetFont("normal") >>)
        d2 == educationLoop(sortedEducation(r.education), d1, now)
    IN  Doc(d2.y + 5 * PerMM, d2.calls)

\* app.js:414-425: the bullet candidates of an experience record
NonEmptyTrimmed(lines) ==
    SelectSeq([i \in 1..Len(lines) |-> Trim(lines[i])], LAMBDA t : Len(t) > 0)

bullets(exp) ==
    LET summary == IF exp.summary = Undefined THEN Undefined ELSE Trim(exp.summary)
    IN  (IF Truthy(summary) THEN <<summary>> ELSE <<>>)
        \o (IF Truthy(exp.details) THEN NonEmptyTrimmed(Split(exp.details, "\n"))
            ELSE <<>>)

\* A variant of displayedBullets without the slice
displayedBulletsUncut(exp) == bullets(exp)

\* bullets.slice(0, MAX_NUMBER_OF_BULLETS_TO_DISPLAY)
displayedBullets(exp) ==
    LET all == bullets(exp)
    IN  SubSeq(all, 1, IF Len(all) < MAX_NUMBER_OF_BULLETS_TO_DISPLAY THEN Len(all)
                       ELSE MAX_NUMBER_OF_BULLETS_TO_DISPLAY)

\* app.js:432-436 and 440-444: the page-break check of the experience loop
experiencePageBreak(d) ==
    IF d.y > PageFloor
    THEN Doc(PageTop, d.calls \o <<AddPage, SetFontSize(sectionFontSize2)>>)
    ELSE d

\* app.js:428-437
RECURSIVE bulletLoop(_, _, _)
bulletLoop(bs, d, rec) ==
    IF bs = <<>> THEN d
    ELSE LET splitBullet == BulletPrefix \o Head(bs)
             lines == splitTextToSizeLength(splitBullet)
         IN  bulletLoop(Tail(bs),
                 experiencePageBreak(
                     Doc(d.y + lines * ((sectionLineHeight * 12) \div 10),
                         Append(d.calls, TextLines(splitBullet, lines, "indent", d.y, rec)))),
                 rec)

\* app.js:399-403
experienceRightText(exp) ==
    LET start == OrElse(exp.startDate, <<>>)
        end == OrElse(exp.endDate, <<"Present">>)
        formattedStart == formatDate(start)
        formattedEnd == formatDate(end)
    IN  IF Truthy(formattedStart)
        THEN formattedStart \o <<" ", "-", " ">> \o formattedEnd
        ELSE formattedEnd

\* app.js:365-412: the title line of an experience record
experienceTitleLine(exp, d) ==
    LET title == OrElse(exp.title, <<>>)
        company == OrElse(exp.company, <<>>)
        location == OrElse(exp.location, <<>>)
        url == OrElse(exp.url, <<>>)
        titleCalls ==
            IF Truthy(title)
            THEN (IF Truthy(url) THEN <<SetTextColor("blue")>> ELSE <<>>)
                 \o <<Text(title, "margin", d.y, exp.oid)>>
                 \o (IF Truthy(url)
                     THEN << Link(url, d.y, exp.oid), SetDrawColor("blue"),
                             Line(d.y, exp.oid), SetTextColor("black"),
                             SetDrawColor("black") >>
                     ELSE <<>>)
            ELSE <<>>
        remainingParts == (IF Truthy(company) THEN <<company>> ELSE <<>>)
                          \o (IF Truthy(location) THEN <<location>> ELSE <<>>)
        remainingCalls ==
            IF Len(remainingParts) > 0
            THEN <<Text((IF Truthy(title) THEN <<",", " ">> ELSE <<>>)
                        \o Join(remainingParts, <<",", " ">>),
                        IF Truthy(title) THEN "flow" ELSE "margin", d.y, exp.oid)>>
            ELSE <<>>
    IN  Doc(d.y + sectionLineHeight + (IF Truthy(url) THEN PerMM ELSE 0),
            d.calls \o <<SetFont("italic")>> \o titleCalls \o remainingCalls
            \o <<Text(experienceRightText(exp), "right", d.y, exp.oid), SetFont("normal")>>)

\* app.js:363-445
RECURSIVE experienceLoop(_, _)
experienceLoop(records, d) ==
    IF records = <<>> THEN d
    ELSE LET exp == Head(records)
             d1 == experienceTitleLine(exp, d)
             d2 == bulletLoop(displayedBullets(exp), d1, exp.oid)
             d3 == experiencePageBreak(Doc(d2.y + (sectionLineHeight * 2) \div 3, d2.calls))
         IN  experienceLoop(Tail(records), d3)

\* app.js:338-445
ExperienceSection(r, d) ==
    LET d1 == Doc(d.y + sectionLineHeight,
                  d.calls \o << SetFont("bold"),
                                Text(<<"Work", " ", "History", "/", "Projects", "/",
                                       "Internships">>, "margin", d.y, 0) >>)
    IN  experienceLoop(sortedExperience(r.experience), d1)

\* generatePdf: the calls made on the document, which doc.output('blob')
\* turns into currentPdfBlob.
generatePdf(r, now) == ExperienceSection(r, EducationSection(r, Header(r), now)).calls

(***************************************************************************)
(* The state after the script has loaded (app.js:47-63)                    *)
(***************************************************************************)
APP_VERSION == <<"1", ".", "0", ".", "0">>

EmptyResume ==
    [version |-> APP_VERSION, name |-> <<>>, email |-> <<>>, phone |-> <<>>,
     additionalText |-> <<>>, contacts |-> <<>>, education |-> <<>>,
     experience |-> <<>>, tags |-> <<>>]

Education(oid, degreeType, name, category, city, state, date) ==
    [oid |-> oid, degreeType |-> degreeType, name |-> name, category |-> category,
     city |-> city, state |-> state, date |-> date]

Experience(oid, category, title, company, location, url, startDate, endDate, summary, details) ==
    [oid |-> oid, category |-> category, title |-> title, company |-> company,
     location |-> location, url |-> url, startDate |-> startDate,
     endDate |-> endDate, summary |-> summary, details |-> details]

\* The values of a form whose elements have all been cleared
ClearedForm ==
    [category |-> <<>>, title |-> <<>>, company |-> <<>>, location |-> <<>>,
     url |-> <<>>, startDate |-> <<>>, endDate |-> <<>>, summary |-> <<>>,
     details |-> <<>>]

SomeDay == [year |-> 2026, month |-> 11, startOfMonth |-> FALSE]

\* Everything but the resume, the date and the argument of formatDate
Loaded ==
    /\ currentPdfBlob = Null
    /\ updateTimeout = NoTimer
    /\ timers = {}
    /\ nextTimerId = 1
    /\ clock = 0
    /\ previewClass = ""
    /\ timerRuns = 0
    /\ cancelled = 0
    /\ localStorage = NoRecord
    /\ currentItem = NoItem
    /\ localArray = <<>>
    /\ form = ClearedForm
    /\ nextOid = 1
    /\ downloaded = NoRecord
    /\ formatted = Null
    /\ file = NoRecord
    /\ exported = NoRecord
    /\ loadErrors = 0
    /\ reloads = 0

(***************************************************************************)
(* formatDate applied to one string                                        *)
(***************************************************************************)
MaxYearDigits == 4

SeqsUpTo(S, n) == UNION {[1..k -> S] : k \in 0..n}

YearParts ==
    SeqsUpTo({"0", "1", "2", "9"}, MaxYearDigits)
    \cup {<<"Fall">>, <<" ", "2", "0", "2", "1">>, <<"2", "0", "Fall">>}

MonthParts == SeqsUpTo(DigitSet, 2) \cup {<<"Fall">>, <<"0", "6", " ">>}

DateInputs ==
    {Undefined, <<"Present">>}
    \cup YearParts
    \cup {y \o <<"-">> \o m : y \in YearParts, m \in MonthParts}
    \cup {<<"2", "0", "2", "1", "-", "0", "6", "-">> \o d : d \in MonthParts}

InitDates ==
    /\ resume = EmptyResume
    /\ today = SomeDay
    /\ dateStr \in DateInputs
    /\ Loaded

CallFormatDate ==
    /\ formatted = Null
    /\ formatted' = formatDate(dateStr)
    /\ UNCHANGED << resume, currentPdfBlob, timerVars, clock, today, formVars,
                    localStorage, downloaded, dateStr, importVars >>

SpecDates == InitDates /\ [][CallFormatDate]_vars

\* The year and the month component of a date string, as the claims speak of
\* them: the text before the first "-" and the text after it, up to the next.
YearComponent(s) == Split(s, "-")[1]

MonthComponent(s) == IF Len(Split(s, "-")) >= 2 THEN Split(s, "-")[2] ELSE <<>>

AllDigits(t) == t # <<>> /\ \A i \in 1..Len(t) : IsDigit(t[i])

\* Missing, non-numeric, or a number that is no year (0) or no month
\* (0, 13, ...).
BadYear(t) == ~AllDigits(t) \/ DigitsValue(t, 0) = 0

BadMonth(t) == ~AllDigits(t) \/ DigitsValue(t, 0) \notin 1..12

Malformed(s) ==
    /\ s # Undefined /\ s # <<>> /\ s # <<"Present">>
    /\ BadYear(YearComponent(s)) \/ BadMonth(MonthComponent(s))

\* C5: formatDate returns every malformed input unchanged: a non-empty
\* string other than "Present" whose year or month component is missing,
\* non-numeric, or no valid year or month (month 0, month 13).
C5_MalformedUnchanged ==
    (formatted # Null /\ Malformed(dateStr)) => formatted = dateStr

\* What does hold: the input comes back when a component is missing, is not
\* a number, or is 0.
C5_MissingNonNumericOrZeroUnchanged ==
    (/\ formatted # Null
     /\ dateStr # Undefined /\ dateStr # <<>> /\ dateStr # <<"Present">>
     /\ \/ ~AllDigits(YearComponent(dateStr))
        \/ ~AllDigits(MonthComponent(dateStr))
        \/ DigitsValue(YearComponent(dateStr), 0) = 0
        \/ DigitsValue(MonthComponent(dateStr), 0) = 0)
    => \/ formatted = dateStr
       \* Number() trims: " 2021-06" and "2021-06 " are numeric
       \/ /\ AllDigits(Trim(YearComponent(dateStr)))
          /\ AllDigits(Trim(MonthComponent(dateStr)))

\* A date string YYYY-MM: a year of four digits that is not 0000 and a month
\* of two digits in 01..12.
IsYearMonth(s) ==
    /\ s # Undefined
    /\ Len(Split(s, "-")) = 2
    /\ Len(YearComponent(s)) = 4 /\ ~BadYear(YearComponent(s))
    /\ Len(MonthComponent(s)) = 2 /\ ~BadMonth(MonthComponent(s))

\* C6: for every date string YYYY-MM with a valid year and a month in 01..12
\* formatDate returns the English month abbreviation, a space and the same
\* four-digit year.
C6_MonthAndSameYear ==
    (formatted # Null /\ IsYearMonth(dateStr))
    => formatted = <<MonthNames[DigitsValue(MonthComponent(dateStr), 0)], " ">>
                   \o YearComponent(dateStr)

\* What does hold: the same, for the years 1000..9999.
C6_MonthAndSameYearFrom1000 ==
    (formatted # Null /\ IsYearMonth(dateStr)
     /\ DigitsValue(YearComponent(dateStr), 0) >= 1000)
    => formatted = <<MonthNames[DigitsValue(MonthComponent(dateStr), 0)], " ">>
                   \o YearComponent(dateStr)

(***************************************************************************)
(* generatePdf applied to one resume                                       *)
(***************************************************************************)
MaxRecords == 3

MaxDetailLines == 10

MaxContacts == 2

D2019 == <<"2", "0", "1", "9", "-", "0", "5">>

D2020 == <<"2", "0", "2", "0", "-", "0", "1">>

D2021 == <<"2", "0", "2", "1", "-", "0", "6">>

D2025 == <<"2", "0", "2", "5", "-", "1", "0">>

WorkExperience == <<"Work", " ", "Experience">>

Url == <<"https", ":", "/", "/", "acme", ".", "example">>

\* Records that differ in nothing but the sort keys
SortKeyExperience(oid, category, startDate) ==
    Experience(oid, category, <<"Dev">>, <<"Acme">>, <<>>, <<>>, startDate, <<>>,
               <<>>, <<>>)

AllCategories ==
    { WorkExperience, <<"Contract">>, <<"Internship">>, <<"Project">>, <<"Projects">>,
      <<"Volunteer">>, <<"Hobby">>, <<>>, Undefined }

SomeCategories == { WorkExperience, <<"Project">>, <<"Volunteer">> }

StartDates == { Undefined, <<>>, D2020, D2021 }

ExperienceByKey(oid, key) == SortKeyExperience(oid, key[1], key[2])

\* The sequences of n experience records made from the keys of Keys,
\* numbered from 1
ExperienceSeqs(n, Keys) ==
    { [i \in 1..n |-> ExperienceByKey(i, ks[i])] : ks \in [1..n -> Keys] }

ExperienceSortInputs ==
    UNION { ExperienceSeqs(n, AllCategories \X StartDates) : n \in 0..2 }
    \cup UNION { ExperienceSeqs(n, SomeCategories \X {<<>>, D2020}) : n \in 3..MaxRecords }

EducationByKey(oid, key) ==
    Education(oid, key[1], <<"State", " ", "U">>, <<"CS">>, <<"Troy">>, <<"NY">>, key[2])

\* The sequences of n education records made from the keys of Keys,
\* numbered from 101
EducationSeqs(n, Keys) ==
    { [i \in 1..n |-> EducationByKey(100 + i, ks[i])] : ks \in [1..n -> Keys] }

EducationSortInputs ==
    UNION { EducationSeqs(n, {<<"B", ".", "S", ".">>, <<"Certificate">>}
                             \X {Undefined, <<>>, D2019, D2025, <<"2", "0", "2", "5">>})
            : n \in 0..2 }
    \cup UNION { EducationSeqs(n, {<<"B", ".", "S", ".">>} \X {Undefined, D2019, D2025})
                 : n \in 3..MaxRecords }

\* Detail lines: line i of pattern p
DetailLine(i, p) ==
    CASE p = "plain" -> <<"did", Digits[(i % 10) + 1]>>
      [] p = "padded" -> <<" ", "did", Digits[(i % 10) + 1], " ">>
      [] p = "gaps" -> IF i % 2 = 0 THEN <<" ">> ELSE <<"did", Digits[(i % 10) + 1]>>
      [] p = "holes" -> IF i % 3 = 1 THEN <<>> ELSE <<"did", Digits[(i % 10) + 1], "~">>

DetailsOf(n, p) == Join([i \in 1..n |-> DetailLine(i, p)], <<"\n">>)

DetailInputs ==
    { Undefined }
    \cup { DetailsOf(n, p) : n \in 0..MaxDetailLines, p \in {"plain", "padded", "gaps", "holes"} }
    \cup { Join(ls, <<"\n">>) :
           ls \in UNION { [1..n -> {<<>>, <<"a">>, <<" ", "b", " ", "c", " ">>}] : n \in 1..3 } }

Summaries == { Undefined, <<>>, <<" ", "\n">>, <<" ", "Led", " ", "it", " ">> }

BulletInputs ==
    { << Experience(1, WorkExperience, <<"Dev">>, <<"Acme">>, <<"NY">>, <<>>, D2020, <<>>,
                    summary, details) >> : summary \in Summaries, details \in DetailInputs }

EndDates == { Undefined, <<>>, <<"Present">>, D2021, <<"2", "0", "2", "1", "-", "1", "3">>,
              <<"Fall">> }

TitleLineInputs ==
    { << Experience(1, WorkExperience, title, company, <<"NY">>, url, startDate, endDate,
                    <<>>, <<"did">>) >> :
      title \in {Undefined, <<"Dev">>}, company \in {<<>>, <<"Acme">>},
      url \in {Undefined, <<>>, Url},
      startDate \in StartDates \cup {<<"Fall">>}, endDate \in EndDates }

ContactInputs ==
    UNION { [1..n -> { [name |-> Undefined, url |-> Url], [name |-> <<>>, url |-> Url],
                       [name |-> <<"GitHub">>, url |-> Undefined],
                       [name |-> <<"GitHub">>, url |-> Url] }]
            : n \in 0..MaxContacts }

AdditionalTexts ==
    { Undefined, <<>>, <<" ", "\n">>, <<"Hello">>, <<" ", "Hello", "\n", "there", "~", " ">> }

HeaderInputs ==
    { [EmptyResume EXCEPT !.name = <<"Jane">>, !.phone = phone, !.email = email,
                          !.contacts = contacts, !.additionalText = text] :
      phone \in {Undefined, <<>>, <<"5", "5", "5", " ", "1", "2", "3", "4">>},
      email \in {<<>>, <<"jane", "@", "x", ".", "com">>},
      contacts \in ContactInputs, text \in AdditionalTexts }

\* Resumes long enough to leave the first page: an additional text of many
\* lines, then some education records and experience records with bullets.
MaxFillLines == 52

Repeat(atom, n) == [i \in 1..n |-> atom]

LongInputs ==
    { [EmptyResume EXCEPT
         !.additionalText = <<"intro">> \o Repeat("~", fill),
         !.education = [i \in 1..ne |-> EducationByKey(100 + i, <<<<"B", ".", "S", ".">>, D2019>>)],
         !.experience = [i \in 1..nx |->
             Experience(i, WorkExperience, <<"Dev">>, <<"Acme">>, <<>>, <<>>, D2020, <<>>,
                        <<>>, DetailsOf(nb, "holes"))]] :
      fill \in 44..MaxFillLines, ne \in 0..MaxRecords, nx \in 0..2, nb \in 0..3 }

\* Sparse resumes: one record of which any subset of the fields is missing,
\* and documents of which any subset of the text fields is missing.
SparseEducation ==
    { << Education(101, degreeType, name, category, city, state, date) >> :
      degreeType \in {Undefined, <<"B", ".", "S", ".">>, <<"Certificate">>},
      name \in {Undefined, <<"State", " ", "U">>}, category \in {Undefined, <<"CS">>},
      city \in {Undefined, <<"Troy">>}, state \in {Undefined, <<"NY">>},
      date \in {Undefined, D2025} }

SparseExperience ==
    { << Experience(1, category, title, company, location, url, startDate, endDate,
                    summary, details) >> :
      category \in {Undefined, WorkExperience}, title \in {Undefined, <<"Dev">>},
      company \in {Undefined, <<"Acme">>}, location \in {Undefined, <<"NY">>},
      url \in {Undefined, Url}, startDate \in {Undefined, D2020},
      endDate \in {Undefined, D2021}, summary \in {Undefined, <<"Led", " ", "it">>},
      details \in {Undefined, <<"did">>} }

SparseDocuments ==
    { [EmptyResume EXCEPT !.name = name, !.phone = phone, !.email = email,
                          !.additionalText = text] :
      name \in {Undefined, <<"Jane">>}, phone \in {Undefined, <<"5", "5", "5">>},
      email \in {Undefined, <<"jane", "@", "x", ".", "com">>},
      text \in {Undefined, <<"Hello">>} }

\* One education record dated around the day three years before each of Days
EducationDateInputs ==
    { << Education(101, degreeType, <<"State", " ", "U">>, <<"CS">>, <<>>, <<>>, date) >> :
      degreeType \in {Undefined, <<"B", ".", "S", ".">>, <<"Certificate">>},
      date \in {Undefined, <<>>, D2019, D2025,
                <<"2", "0", "1", "9", "-", "0", "4">>, <<"2", "0", "1", "9", "-", "0", "6">>,
                <<"2", "0", "2", "3", "-", "1", "0">>, <<"2", "0", "2", "3", "-", "1", "1">>,
                <<"2", "0", "2", "3", "-", "1", "2">>, <<"0", "0", "9", "9", "-", "0", "5">>} }

LayoutInputs ==
    { [EmptyResume EXCEPT !.experience = x] :
      x \in ExperienceSortInputs \cup BulletInputs \cup TitleLineInputs
             \cup SparseExperience }
    \cup { [EmptyResume EXCEPT !.education = e] :
           e \in EducationSortInputs \cup SparseEducation \cup EducationDateInputs }
    \cup HeaderInputs
    \cup LongInputs
    \cup SparseDocuments

Days ==
    { SomeDay, [year |-> 2022, month |-> 5, startOfMonth |-> TRUE] }

InitLayout ==
    /\ resume \in LayoutInputs
    /\ today \in Days
    /\ dateStr = <<>>
    /\ Loaded

\* A call of generatePdf on a page that has no PDF yet
GeneratePdf ==
    /\ currentPdfBlob = Null
    /\ currentPdfBlob' = generatePdf(resume, today)
    /\ UNCHANGED << resume, timerVars, clock, today, formVars, localStorage,
                    downloaded, dateStr, importVars, formatted >>

SpecLayout == InitLayout /\ [][GeneratePdf]_vars

(***************************************************************************)
(* Reading the calls of a generated document                               *)
(***************************************************************************)
Rendered == currentPdfBlob # Null

EducationHeading == <<"Education", " ", "and", " ", "Certification">>

ExperienceHeading == <<"Work", " ", "History", "/", "Projects", "/", "Internships">>

\* The index of the call that draws a section heading
HeadingIndex(calls, heading) ==
    CHOOSE i \in 1..Len(calls) :
        calls[i].fn = "text" /\ calls[i].rec = 0 /\ calls[i].x = "margin"
        /\ calls[i].s = heading

IsTextAt(c, x) == c.fn = "text" /\ c.x = x

\* The calls between the two headings, and those after the second
EducationCalls(calls) ==
    SubSeq(calls, HeadingIndex(calls, EducationHeading) + 1,
           HeadingIndex(calls, ExperienceHeading) - 1)

ExperienceCalls(calls) ==
    SubSeq(calls, HeadingIndex(calls, ExperienceHeading) + 1, Len(calls))

\* One education record draws one text at the indent, one experience record
\* one text at the right margin: the records in the order they are rendered.
RenderedEducation(calls) ==
    LET lines == SelectSeq(EducationCalls(calls), LAMBDA c : IsTextAt(c, "indent"))
    IN  [i \in 1..Len(lines) |-> lines[i].rec]

RenderedExperience(calls) ==
    LET lines == SelectSeq(ExperienceCalls(calls), LAMBDA c : IsTextAt(c, "right"))
    IN  [i \in 1..Len(lines) |-> lines[i].rec]

\* The texts of the bullets drawn for the experience record oid
RenderedBullets(calls, oid) ==
    LET lines == SelectSeq(ExperienceCalls(calls),
                           LAMBDA c : IsTextAt(c, "indent") /\ c.rec = oid)
    IN  [i \in 1..Len(lines) |-> lines[i].s]

\* The text drawn at the right margin for the experience record oid
RenderedRightText(calls, oid) ==
    LET lines == SelectSeq(ExperienceCalls(calls),
                           LAMBDA c : IsTextAt(c, "right") /\ c.rec = oid)
    IN  lines[1].s

IndexOf(records, oid) == CHOOSE i \in 1..Len(records) : records[i].oid = oid

IsPermutationOf(order, records) ==
    /\ Len(order) = Len(records)
    /\ \A i \in 1..Len(records) : \E j \in 1..Len(order) : order[j] = records[i].oid
    /\ \A i, j \in 1..Len(order) : order[i] = order[j] => i = j

(***************************************************************************)
(* Claims about the layout                                                 *)
(***************************************************************************)
\* C3: every page-break check applies the same rule: a page is added, y is
\* reset to 20 and the section font size (10.5pt) is applied again.  In the
\* calls: every addPage is directly followed by setFontSize(10.5pt), and an
\* education record is drawn one line below the one before, or at the top of
\* a new page when that line would lie beyond 280.
C3_SamePageBreakRule ==
    Rendered =>
        LET calls == currentPdfBlob
            edu == SelectSeq(EducationCalls(calls), LAMBDA c : IsTextAt(c, "indent"))
        IN  /\ \A i \in 1..Len(calls) :
                   calls[i].fn = "addPage"
                   => i < Len(calls) /\ calls[i + 1] = SetFontSize(sectionFontSize2)
            /\ \A i \in 1..(Len(edu) - 1) :
                   edu[i + 1].y = IF edu[i].y + sectionLineHeight > PageFloor
                                  THEN PageTop
                                  ELSE edu[i].y + sectionLineHeight

\* What does hold: the two checks of the experience loop apply the font size
\* again, the check of the education loop adds the page and nothing else.
C3_ExperienceBreaksReapplyFontSize ==
    Rendered =>
        LET calls == currentPdfBlob
            x == HeadingIndex(calls, ExperienceHeading)
        IN  \A i \in 1..Len(calls) :
                calls[i].fn = "addPage"
                => i < Len(calls)
                   /\ (i > x <=> calls[i + 1] = SetFontSize(sectionFontSize2))

\* A document whose education loop has added a page
C3_EducationBreakSeen ==
    /\ Rendered
    /\ \E i \in 1..HeadingIndex(currentPdfBlob, ExperienceHeading) :
           currentPdfBlob[i].fn = "addPage"

\* C4: the date text of an experience record is formatDate(startDate), " - "
\* and formatDate(endDate), a missing or empty endDate shown as "Present";
\* with an empty startDate it is the formatted end value alone.
C4_EndText(exp) == IF Falsy(exp.endDate) THEN <<"Present">> ELSE formatDate(exp.endDate)

C4_DateRange ==
    Rendered =>
        \A i \in 1..Len(resume.experience) :
            LET exp == resume.experience[i]
            IN  RenderedRightText(currentPdfBlob, exp.oid) =
                    IF Falsy(exp.startDate) THEN C4_EndText(exp)
                    ELSE formatDate(exp.startDate) \o <<" ", "-", " ">> \o C4_EndText(exp)

\* What does hold: with an empty startDate the text is "Present - " and the
\* formatted end value.
C4_DateRangeAsCoded ==
    Rendered =>
        \A i \in 1..Len(resume.experience) :
            LET exp == resume.experience[i]
            IN  RenderedRightText(currentPdfBlob, exp.oid) =
                    (IF Falsy(exp.startDate) THEN <<"Present">>
                     ELSE formatDate(exp.startDate))
                    \o <<" ", "-", " ">> \o C4_EndText(exp)

\* The priority of a category, as the claim lists them
C7_Priority(category) ==
    CASE category = <<"Work", " ", "Experience">> -> 1
      [] category = <<"Contract">> -> 2
      [] category = <<"Internship">> -> 3
      [] category \in {<<"Project">>, <<"Projects">>} -> 4
      [] category = <<"Volunteer">> -> 5
      [] OTHER -> 99

\* The sort key a date field gives: the string, a missing one the empty string
DateKey(date) == IF date = Undefined THEN <<>> ELSE date

C8_EducationOrder ==
    Rendered =>
        LET order == RenderedEducation(currentPdfBlob)
            rec(k) == resume.education[IndexOf(resume.education, order[k])]
        IN  /\ IsPermutationOf(order, resume.education)
            /\ \A i, j \in 1..Len(order) :
                   i < j =>
                   LET a == rec(i)
                       b == rec(j)
                       cmp == localeCompare(DateKey(a.date), DateKey(b.date))
                   IN  /\ cmp >= 0
                       /\ Falsy(a.date) => Falsy(b.date)
                       /\ cmp = 0
                          => IndexOf(resume.education, a.oid) < IndexOf(resume.education, b.oid)

\* An undated record, an early one and two records of one later date have
\* been rendered: the two in their order, then the early one, the undated
\* one last.
C8_Witness ==
    /\ Rendered
    /\ Len(resume.education) = 3
    /\ resume.education[1].date = Undefined
    /\ resume.education[2].date = D2025
    /\ resume.education[3].date = D2025
    /\ RenderedEducation(currentPdfBlob) = <<102, 103, 101>>

\* The candidate list of the claim: the trimmed summary, if it is not empty,
\* then the lines of details, trimmed, the empty ones dropped.
C9_Candidates(exp) ==
    LET lines == IF Falsy(exp.details) THEN <<>> ELSE Split(exp.details, "\n")
        kept == { i \in 1..Len(lines) : Trim(lines[i]) # <<>> }
        \* the k-th kept line is the one with k - 1 kept lines before it
        nth(k) == CHOOSE i \in kept : Cardinality({ j \in kept : j < i }) = k - 1
        fromSummary == IF exp.summary # Undefined /\ Trim(exp.summary) # <<>>
                       THEN <<Trim(exp.summary)>> ELSE <<>>
    IN  fromSummary \o [k \in 1..Cardinality(kept) |-> Trim(lines[nth(k)])]

\* C9: the bullets rendered for an experience record are the first min(8, n)
\* of its n candidates, in order; ten non-empty detail lines and no summary
\* give exactly the first eight lines.
C9_FirstEightBullets ==
    Rendered =>
        \A i \in 1..Len(resume.experience) :
            LET exp == resume.experience[i]
                drawn == RenderedBullets(currentPdfBlob, exp.oid)
                cand == C9_Candidates(exp)
                n == Len(cand)
            IN  /\ Len(drawn) = IF n < 8 THEN n ELSE 8
                /\ \A k \in 1..Len(drawn) : drawn[k] = BulletPrefix \o cand[k]
                /\ (Falsy(exp.summary) /\ exp.details = DetailsOf(10, "plain"))
                   => drawn = [k \in 1..8 |-> BulletPrefix \o DetailLine(k, "plain")]

\* A record with a summary and ten detail lines has been rendered.
C9_Witness ==
    /\ Rendered
    /\ Len(resume.experience) = 1
    /\ Truthy(resume.experience[1].summary)
    /\ resume.experience[1].details = DetailsOf(10, "padded")
    /\ Len(RenderedBullets(currentPdfBlob, 1)) = 8

\* The contact part list of the claim is empty: no phone, no email and no
\* contacts entry with a non-empty name.
C10_NoParts ==
    /\ Falsy(resume.phone)
    /\ Falsy(resume.email)
    /\ \A i \in 1..Len(resume.contacts) : Falsy(resume.contacts[i].name)

\* C10: with an empty contact part list no contact line is drawn and the
\* next block starts at the y reached after the name line; otherwise the
\* contact line is drawn there and the next block starts one 12pt/1.15 line
\* height further down.  The next block is the additional text or, after
\* the gap of 5 mm, the education heading.
C10_ContactLineAdvance ==
    Rendered =>
        LET calls == currentPdfBlob
            h == HeadingIndex(calls, EducationHeading)
            afterName == PageTop + getLineHeightMM(NameFontSize2, HeaderSpacing100)
            contactLine == { i \in 1..h : IsTextAt(calls[i], "flow") }
            additional == { i \in 2..h : IsTextAt(calls[i], "center") /\ calls[i].y # PageTop }
            advance == IF C10_NoParts THEN 0
                       ELSE getLineHeightMM(ContactFontSize2, HeaderSpacing100)
        IN  /\ C10_NoParts <=> contactLine = {}
            /\ \A i \in contactLine : calls[i].y = afterName
            /\ \A i \in additional : calls[i].y = afterName + advance
            /\ additional = {} => calls[h].y = afterName + advance + 5 * PerMM

\* A resume with two contacts, neither of them named, no phone and no email,
\* and with an additional text has been rendered.
C10_Witness ==
    /\ Rendered
    /\ C10_NoParts
    /\ Len(resume.contacts) = 2
    /\ Truthy(resume.additionalText)

(***************************************************************************)
(* Sparse input                                                            *)
(***************************************************************************)
\* A record with the empty string in the place of every missing field
BlankRecord(rec) ==
    [f \in DOMAIN rec |-> IF f = "oid" THEN rec[f]
                          ELSE IF rec[f] = Undefined THEN <<>> ELSE rec[f]]

BlankText(t) == IF t = Undefined THEN <<>> ELSE t

\* A resume with the empty string in the place of every missing field of the
\* document, of its education records and of its experience records
Blanked(r) ==
    [r EXCEPT !.name = BlankText(r.name), !.phone = BlankText(r.phone),
              !.email = BlankText(r.email),
              !.additionalText = BlankText(r.additionalText),
              !.education = [i \in 1..Len(r.education) |-> BlankRecord(r.education[i])],
              !.experience = [i \in 1..Len(r.experience) |-> BlankRecord(r.experience[i])]]

HasMissingField(rec) == \E f \in (DOMAIN rec) \ {"oid"} : rec[f] = Undefined

\* C11: a missing field of the document, of an education record or of an
\* experience record contributes the empty string to what is drawn: the
\* document is the one drawn for the resume with '' in the place of every
\* missing field, and no text drawn holds the word undefined.
C11_MissingFieldsRenderEmpty ==
    Rendered =>
        /\ currentPdfBlob = generatePdf(Blanked(resume), today)
        /\ \A i \in 1..Len(currentPdfBlob) :
               currentPdfBlob[i].fn = "text" =>
                   \A k \in 1..Len(currentPdfBlob[i].s) :
                       currentPdfBlob[i].s[k] # "undefined"

\* What does hold: the missing fields of the document and of the experience
\* records contribute the empty string.
C11_ExperienceFieldsRenderEmpty ==
    (Rendered /\ \A i \in 1..Len(resume.education) : ~HasMissingField(resume.education[i]))
        => currentPdfBlob = generatePdf(Blanked(resume), today)

(***************************************************************************)
(* The date field of an education record                                   *)
(***************************************************************************)
\* The texts drawn at the right margin for the education record oid
EducationRightTexts(calls, oid) ==
    LET lines == SelectSeq(EducationCalls(calls),
                           LAMBDA c : IsTextAt(c, "right") /\ c.rec = oid)
    IN  [i \in 1..Len(lines) |-> lines[i].s]

\* The first day of the month of the date string YYYY-MM is strictly
\* earlier than the day three years before now
C13_Graduated(date, now) ==
    LET month == DigitsValue(YearComponent(date), 0) * 12
                 + DigitsValue(MonthComponent(date), 0)
        limit == (now.year - 3) * 12 + now.month
    IN  month < limit \/ (month = limit /\ ~now.startOfMonth)

\* C13: for an education record that is no Certificate, the text at the
\* right margin is "Status - Graduated" exactly when the first day of the
\* month of its date YYYY-MM is strictly earlier than three years before
\* the current date, and formatDate(date) otherwise; for an empty or a
\* missing date nothing is drawn at the right.
C13_EducationDateField ==
    Rendered =>
        \A i \in 1..Len(resume.education) :
            LET edu == resume.education[i]
                right == EducationRightTexts(currentPdfBlob, edu.oid)
            IN  edu.degreeType # <<"Certificate">> =>
                    /\ Falsy(edu.date) => right = <<>>
                    /\ IsYearMonth(edu.date) =>
                           right = IF C13_Graduated(edu.date, today)
                                   THEN << <<"Status", " ", "-", " ", "Graduated">> >>
                                   ELSE << formatDate(edu.date) >>

\* A degree dated exactly three years before the first instant of the
\* current month has been drawn with its date, not as graduated.
C13_Witness ==
    /\ Rendered
    /\ today.startOfMonth
    /\ \E i \in 1..Len(resume.education) :
           LET edu == resume.education[i]
           IN  /\ edu.degreeType = <<"B", ".", "S", ".">>
               /\ IsYearMonth(edu.date)
               /\ DigitsValue(YearComponent(edu.date), 0) = today.year - 3
               /\ DigitsValue(MonthComponent(edu.date), 0) = today.month
               /\ EducationRightTexts(currentPdfBlob, edu.oid) = << formatDate(edu.date) >>

(***************************************************************************)
(* The advance after the title line of an experience record                *)
(***************************************************************************)
\* The calls made for the experience record oid
CallsOf(calls, oid) == SelectSeq(ExperienceCalls(calls), LAMBDA c : c.rec = oid)

\* From the title line of the record oid to its first bullet
C14_Advance(calls, oid) ==
    LET own == CallsOf(calls, oid)
        right == SelectSeq(own, LAMBDA c : IsTextAt(c, "right"))
        drawn == SelectSeq(own, LAMBDA c : IsTextAt(c, "indent"))
    IN  drawn[1].y - right[1].y

C14_LinkDrawn(calls, oid) ==
    \E i \in 1..Len(calls) : calls[i].fn = "link" /\ calls[i].rec = oid

\* C14: after the title line of an experience record y advances by one
\* section line height, and by 1 mm more exactly when a link was drawn for
\* its title.  Read at the first bullet of every record that has one.
C14_TitleLineAdvance ==
    Rendered =>
        \A i \in 1..Len(resume.experience) :
            LET exp == resume.experience[i]
            IN  RenderedBullets(currentPdfBlob, exp.oid) # <<>> =>
                    C14_Advance(currentPdfBlob, exp.oid) =
                        sectionLineHeight
                        + (IF C14_LinkDrawn(currentPdfBlob, exp.oid) THEN PerMM ELSE 0)

\* What does hold: the extra 1 mm is there exactly when the record has a url
C14_AdvanceByUrl ==
    Rendered =>
        \A i \in 1..Len(resume.experience) :
            LET exp == resume.experience[i]
            IN  RenderedBullets(currentPdfBlob, exp.oid) # <<>> =>
                    C14_Advance(currentPdfBlob, exp.oid) =
                        sectionLineHeight + (IF Truthy(exp.url) THEN PerMM ELSE 0)

(***************************************************************************)
(* The overflow threshold                                                  *)
(***************************************************************************)
\* The calls of the two sections, headings included
SectionCalls(calls) ==
    SubSeq(calls, HeadingIndex(calls, EducationHeading), Len(calls))

\* C15: every text of the education section and of the experience section
\* (headings, education lines, title lines, bullets) is drawn with y at
\* most 280.
C15_NoTextBeyondThreshold ==
    Rendered =>
        \A i \in 1..Len(SectionCalls(currentPdfBlob)) :
            LET c == SectionCalls(currentPdfBlob)[i]
            IN  c.fn = "text" => c.y <= PageFloor

\* What does hold: every education line but the first of the section, and
\* the title line of every experience record but the first, is drawn with y
\* at most 280.
C15_ChecksBoundLaterRecords ==
    Rendered =>
        LET edu == SelectSeq(EducationCalls(currentPdfBlob), LAMBDA c : IsTextAt(c, "indent"))
            exp == SelectSeq(ExperienceCalls(currentPdfBlob), LAMBDA c : IsTextAt(c, "right"))
        IN  /\ \A i \in 2..Len(edu) : edu[i].y <= PageFloor
            /\ \A i \in 2..Len(exp) : exp[i].y <= PageFloor

(***************************************************************************)
(* The page at work: the form editor of the experience records             *)
(* (makeFormBread, app.js:535-727), the debounced preview (updatePreview,  *)
(* app.js:143-163) and the download (downloadPdf, app.js:804-817).         *)
(* resume.experience holds the records in the insertion order of the Set;  *)
(* the oid of a record stands for the identity of the object.              *)
(***************************************************************************)
MaxItems == 2

MaxOids == 2

MaxTimers == 2

MaxTicks == 2

\* The delay of the timer of updatePreview, in ms
Delay == 1000

TickMs == Delay \div 2

\* What the user may have typed into the form
FormValues ==
    { [ClearedForm EXCEPT !.title = <<"Dev">>, !.category = WorkExperience],
      [ClearedForm EXCEPT !.title = <<"Ops">>, !.startDate = D2020] }

FormFields == DOMAIN ClearedForm

\* JSON.stringify of the resume with its Sets turned into arrays
\* (app.js:733-740): the identity of the objects is not part of the text.
StripOid(record) == [f \in (DOMAIN record) \ {"oid"} |-> record[f]]

resumeToSave(r) ==
    [r EXCEPT !.education = [i \in 1..Len(r.education) |-> StripOid(r.education[i])],
              !.experience = [i \in 1..Len(r.experience) |-> StripOid(r.experience[i])]]

\* A variant of clearTimeout that cancels nothing
clearTimeoutForgotten(pending, id) == pending

\* clearTimeout(updateTimeout): the timers that stay pending
clearTimeout(pending, id) == { t \in pending : t.id # id }

\* updatePreview(false), app.js:151-162, made with the resume r
SchedulePreview ==
    /\ previewClass' = "fade-out"
    /\ timers' = clearTimeout(timers, updateTimeout)
                 \cup {[id |-> nextTimerId, due |-> clock + Delay]}
    /\ cancelled' = cancelled + Cardinality(timers \ clearTimeout(timers, updateTimeout))
    /\ updateTimeout' = nextTimerId
    /\ nextTimerId' = nextTimerId + 1
    /\ UNCHANGED << currentPdfBlob, timerRuns >>

\* updatePreview(immediate) called by the page
UpdatePreview(immediate) ==
    /\ IF immediate
       THEN /\ currentPdfBlob' = generatePdf(resume, today)
            /\ UNCHANGED timerVars
       ELSE /\ nextTimerId <= MaxTimers
            /\ SchedulePreview
    /\ UNCHANGED << resume, clock, today, formVars, localStorage, downloaded, dateStr, importVars,
                    formatted >>

\* The callback of the timer, app.js:158-162
TimerFires ==
    \E t \in timers :
        /\ t.due <= clock
        /\ timers' = timers \ {t}
        /\ currentPdfBlob' = generatePdf(resume, today)
        /\ previewClass' = "fade-in"
        /\ timerRuns' = timerRuns + 1
        /\ UNCHANGED << resume, updateTimeout, nextTimerId, cancelled, clock, today,
                        formVars, localStorage, downloaded, dateStr, importVars, formatted >>

\* Time passes
Tick ==
    /\ clock < MaxTicks * TickMs
    /\ clock' = clock + TickMs
    /\ UNCHANGED << resume, currentPdfBlob, timerVars, today, formVars, localStorage,
                    downloaded, dateStr, importVars, formatted >>

\* The user types into the form
EditForm ==
    \E v \in FormValues :
        /\ form' = v
        /\ UNCHANGED << resume, currentPdfBlob, timerVars, clock, today, currentItem,
                        localArray, nextOid, localStorage, downloaded, dateStr, importVars,
                        formatted >>

\* updateSelectList, app.js:654-678, with no sortFunc: the oids of dataArray
updateSelectList(dataArray) == [i \in 1..Len(dataArray) |-> dataArray[i].oid]

\* select.onchange, app.js:563-593: entry k of the select element is chosen,
\* entry 0 being the placeholder
SelectEntry ==
    \E k \in 0..Len(localArray) :
        /\ IF k >= 1
           THEN LET item == resume.experience[IndexOf(resume.experience, localArray[k])]
                IN  /\ currentItem' = localArray[k]
                    /\ form' = [f \in FormFields |->
                                  IF f \in DOMAIN item THEN item[f] ELSE form[f]]
           ELSE /\ currentItem' = NoItem
                /\ form' = ClearedForm
        /\ UNCHANGED << resume, currentPdfBlob, timerVars, clock, today, localArray,
                        nextOid, localStorage, downloaded, dateStr, importVars, formatted >>

\* The button New, app.js:595-605
NewEntry ==
    /\ currentItem' = NoItem
    /\ form' = ClearedForm
    /\ UNCHANGED << resume, currentPdfBlob, timerVars, clock, today, localArray,
                    nextOid, localStorage, downloaded, dateStr, importVars, formatted >>

\* A variant of the save that adds a record whatever is selected
savedRecordsAlwaysAdded(dataArray, selected, data, oid) ==
    Append(dataArray, [f \in FormFields \cup {"oid"} |->
                          IF f = "oid" THEN oid ELSE data[f]])

\* dataArray.add(data) and Object.assign(currentItem, data), app.js:714-722
savedRecords(dataArray, selected, data, oid) ==
    IF selected = NoItem
    THEN Append(dataArray, [f \in FormFields \cup {"oid"} |->
                               IF f = "oid" THEN oid ELSE data[f]])
    ELSE [i \in 1..Len(dataArray) |->
            IF dataArray[i].oid = selected
            THEN [f \in DOMAIN dataArray[i] |->
                    IF f \in FormFields THEN data[f] ELSE dataArray[i][f]]
            ELSE dataArray[i]]

\* saveItem, app.js:694-726
SaveItem ==
    /\ nextTimerId <= MaxTimers
    /\ currentItem = NoItem => (Len(resume.experience) < MaxItems /\ nextOid <= MaxOids)
    /\ resume' = [resume EXCEPT
                    !.experience = savedRecords(resume.experience, currentItem, form, nextOid)]
    /\ currentItem' = IF currentItem = NoItem THEN nextOid ELSE currentItem
    /\ nextOid' = IF currentItem = NoItem THEN nextOid + 1 ELSE nextOid
    /\ localArray' = updateSelectList(resume'.experience)
    /\ localStorage' = resumeToSave(resume')
    /\ SchedulePreview
    /\ UNCHANGED << clock, today, form, downloaded, dateStr, importVars, formatted >>

\* deleteItem, app.js:681-692.  With nothing selected it alerts and returns:
\* the state of the page stays as it is.
DeleteItem ==
    IF currentItem = NoItem
    THEN UNCHANGED vars
    ELSE /\ nextTimerId <= MaxTimers
         /\ resume' = [resume EXCEPT
                         !.experience = SelectSeq(resume.experience,
                                                  LAMBDA e : e.oid # currentItem)]
         /\ currentItem' = NoItem
         /\ localArray' = updateSelectList(resume'.experience)
         /\ localStorage' = resumeToSave(resume')
         /\ SchedulePreview
         /\ UNCHANGED << clock, today, form, nextOid, downloaded, dateStr, importVars, formatted >>

\* downloadPdf, app.js:804-817.  The resume of the moment is kept beside the
\* blob that is handed over.
DownloadPdf ==
    /\ currentPdfBlob' = IF currentPdfBlob = Null THEN generatePdf(resume, today)
                         ELSE currentPdfBlob
    /\ downloaded' = [blob |-> currentPdfBlob',
                      download |-> OrElse(resume.name, <<"resume">>) \o <<".", "pdf">>,
                      resume |-> resume]
    /\ UNCHANGED << resume, timerVars, clock, today, formVars, localStorage, dateStr, importVars,
                    formatted >>

InitPage ==
    /\ resume = EmptyResume
    /\ today = SomeDay
    /\ dateStr = <<>>
    /\ Loaded

NextPage ==
    \/ \E immediate \in BOOLEAN : UpdatePreview(immediate)
    \/ TimerFires
    \/ Tick
    \/ EditForm
    \/ SelectEntry
    \/ NewEntry
    \/ SaveItem
    \/ DeleteItem
    \/ DownloadPdf

SpecPage == InitPage /\ [][NextPage]_vars

(***************************************************************************)
(* Import and export (safeLoadResume app.js:113-137, downloadJson          *)
(* app.js:746-763, loadJson app.js:769-799).                               *)
(*                                                                         *)
(* A file is [parse |-> "SyntaxError"] or [parse |-> "ok", value |-> v],   *)
(* v being what JSON.parse yields: [kind |-> "null"] or an object with the *)
(* fields of the schema.  A text field is a string or Undefined.  An array *)
(* field is [kind |-> "array", items |-> ...], [kind |-> "number"] (a      *)
(* number other than 0) or [kind |-> "missing"].  An item is               *)
(* [kind |-> "null"] or [kind |-> "object", entries |-> ...], the entries  *)
(* being the pairs [key, value] of Object.entries.  A key is a sequence of *)
(* atoms: words, and "-".                                                  *)
(***************************************************************************)
\* part.charAt(0).toUpperCase() + part.slice(1), on the first atom of a part
UpperFirst(part) ==
    IF part = <<>> THEN part
    ELSE << CASE part[1] = "date" -> "Date"
              [] part[1] = "type" -> "Type"
              [] part[1] = "degree" -> "Degree"
              [] part[1] = "start" -> "Start"
              [] part[1] = "name" -> "Name"
              [] part[1] = "url" -> "Url"
              [] part[1] = "title" -> "Title"
              [] part[1] = "form" -> "Form"
              [] part[1] = "input" -> "Input"
              [] OTHER -> part[1] >> \o Tail(part)

\* mapKeyToProperty, app.js:70-89
mapKeyToProperty(key) ==
    IF key = <<"contact", "-", "form", "-", "name", "-", "input">> THEN <<"name">>
    ELSE IF key = <<"contact", "-", "form", "-", "url", "-", "input">> THEN <<"url">>
    ELSE LET split == Split(key, "-")
             parts == IF Len(split) > 1
                         /\ split[1] \in {<<"experience">>, <<"education">>, <<"contact">>}
                      THEN Tail(split) ELSE split
         IN  Join([i \in 1..Len(parts) |->
                      IF i = 1 THEN parts[i] ELSE UpperFirst(parts[i])], <<>>)

\* The name of a property as one string
RECURSIVE PropertyName(_)
PropertyName(key) ==
    IF key = <<>> THEN "" ELSE Head(key) \o PropertyName(Tail(key))

\* The object with the given properties [name, value]: a later property of
\* the same name replaces an earlier one
ObjectOf(properties) ==
    [f \in {properties[i].name : i \in 1..Len(properties)} |->
        properties[CHOOSE i \in 1..Len(properties) :
                       /\ properties[i].name = f
                       /\ \A j \in (i + 1)..Len(properties) : properties[j].name # f].value]

\* migrateItem, app.js:124-131, of an item that is an object
migrateItem(item) ==
    ObjectOf([i \in 1..Len(item.entries) |->
                 [name |-> PropertyName(mapKeyToProperty(item.entries[i].key)),
                  value |-> item.entries[i].value]])

\* An item of loadedResume.tags, kept as it was parsed
parsedItem(item) ==
    ObjectOf([i \in 1..Len(item.entries) |->
                 [name |-> PropertyName(item.entries[i].key),
                  value |-> item.entries[i].value]])

\* The identity of an object that the model gives to a record of the resume
WithOid(record, oid) ==
    [f \in (DOMAIN record) \cup {"oid"} |-> IF f = "oid" THEN oid ELSE record[f]]

\* (loadedResume.contacts || []).map(migrateItem) raises a TypeError: the
\* field is a number, which has no map, or an item is null, of which
\* Object.entries cannot be taken.
mapRaises(field) ==
    \/ field.kind = "number"
    \/ field.kind = "array" /\ \E i \in 1..Len(field.items) : field.items[i].kind = "null"

\* new Set(loadedResume.tags || []) raises a TypeError: a number is not iterable
setRaises(field) == field.kind = "number"

itemsOf(field) == IF field.kind = "array" THEN field.items ELSE <<>>

\* safeLoadResume, app.js:113-137: the resume it leaves, and whether it raised.
\* The assignments are made one after the other; one that raises ends the
\* call and keeps those made before it.
safeLoadResume(r, loadedResume) ==
    LET r1 == [r EXCEPT !.name = OrElse(loadedResume.name, <<>>),
                        !.email = OrElse(loadedResume.email, <<>>),
                        !.phone = OrElse(loadedResume.phone, <<>>),
                        !.additionalText = OrElse(loadedResume.additionalText, <<>>)]
        contacts == itemsOf(loadedResume.contacts)
        education == itemsOf(loadedResume.education)
        experience == itemsOf(loadedResume.experience)
        tags == itemsOf(loadedResume.tags)
        r2 == [r1 EXCEPT !.contacts = [i \in 1..Len(contacts) |-> migrateItem(contacts[i])]]
        r3 == [r2 EXCEPT !.education =
                  [i \in 1..Len(education) |-> WithOid(migrateItem(education[i]), 100 + i)]]
        r4 == [r3 EXCEPT !.experience =
                  [i \in 1..Len(experience) |-> WithOid(migrateItem(experience[i]), i)]]
        r5 == [r4 EXCEPT !.tags = [i \in 1..Len(tags) |-> parsedItem(tags[i])]]
    IN  IF mapRaises(loadedResume.contacts) THEN [resume |-> r1, raised |-> TRUE]
        ELSE IF mapRaises(loadedResume.education) THEN [resume |-> r2, raised |-> TRUE]
        ELSE IF mapRaises(loadedResume.experience) THEN [resume |-> r3, raised |-> TRUE]
        ELSE IF setRaises(loadedResume.tags) THEN [resume |-> r4, raised |-> TRUE]
        ELSE [resume |-> r5, raised |-> FALSE]

\* The files the user may choose
MaxLoads == 1

Entry(key, value) == [key |-> key, value |-> value]

Object(entries) == [kind |-> "object", entries |-> entries]

Array(items) == [kind |-> "array", items |-> items]

NullItem == [kind |-> "null"]

ContactArrays ==
    { [kind |-> "missing"], Array(<<>>),
      Array(<< Object(<< Entry(<<"name">>, <<"GitHub">>), Entry(<<"url">>, Url) >>),
               Object(<< Entry(<<"name">>, <<"GitHub">>), Entry(<<"url">>, Url) >>) >>),
      Array(<< Object(<< Entry(<<"contact", "-", "form", "-", "name", "-", "input">>,
                               <<"GitHub">>) >>) >>),
      [kind |-> "number"] }

EducationArrays ==
    { Array(<<>>),
      Array(<< Object(<< Entry(<<"degree", "Type">>, <<"B", ".", "S", ".">>),
                         Entry(<<"name">>, <<"State", " ", "U">>),
                         Entry(<<"date">>, D2025) >>),
               Object(<< Entry(<<"name">>, <<"Cert">>),
                         Entry(<<"degree", "Type">>, <<"Certificate">>) >>) >>),
      Array(<< Object(<< Entry(<<"education", "-", "degree", "-", "type">>,
                               <<"B", ".", "S", ".">>),
                         Entry(<<"education", "-", "name">>, <<"State", " ", "U">>) >>) >>),
      Array(<< Object(<< Entry(<<"name">>, <<"State", " ", "U">>) >>), NullItem >>) }

ExperienceArrays ==
    { Array(<<>>),
      Array(<< Object(<< Entry(<<"title">>, <<"Dev">>), Entry(<<"start", "Date">>, D2020),
                         Entry(<<"category">>, WorkExperience) >>) >>),
      Array(<< Object(<< Entry(<<"experience", "-", "start", "-", "date">>, D2020),
                         Entry(<<"start", "Date">>, D2021) >>) >>) }

TagArrays ==
    { [kind |-> "missing"], Array(<<>>),
      Array(<< Object(<< Entry(<<"string">>, <<"js">>), Entry(<<"is", "Regex">>, <<"false">>) >>),
               Object(<< Entry(<<"string">>, <<"js">>),
                         Entry(<<"is", "Regex">>, <<"false">>) >>) >>),
      [kind |-> "number"] }

\* The four array fields of a file: one of them varies, the others are empty
ArrayFields ==
    { [contacts |-> c, education |-> Array(<<>>), experience |-> Array(<<>>),
       tags |-> Array(<<>>)] : c \in ContactArrays }
    \cup { [contacts |-> Array(<<>>), education |-> e, experience |-> Array(<<>>),
             tags |-> Array(<<>>)] : e \in EducationArrays }
    \cup { [contacts |-> Array(<<>>), education |-> Array(<<>>), experience |-> x,
             tags |-> t] : x \in ExperienceArrays, t \in TagArrays }

ImportFiles ==
    { [parse |-> "SyntaxError"], [parse |-> "ok", value |-> [kind |-> "null"]] }
    \cup { [parse |-> "ok",
            value |-> [kind |-> "object", version |-> version, name |-> name,
                       email |-> <<"jane", "@", "x", ".", "com">>, phone |-> <<>>,
                       additionalText |-> <<"Hello">>, contacts |-> a.contacts,
                       education |-> a.education, experience |-> a.experience,
                       tags |-> a.tags]] :
           version \in {APP_VERSION, <<"0", ".", "9", ".", "0">>, Undefined},
           name \in {<<"Jane">>, Undefined}, a \in ArrayFields }

\* reader.onload of loadJson, app.js:774-796, for the file f.  JSON.parse
\* raises on a text that is no JSON; loadedResume.version raises on null.
LoadJson ==
    /\ reloads = 0
    /\ loadErrors + reloads < MaxLoads
    /\ \E f \in ImportFiles :
        /\ file' = f
        /\ IF f.parse = "SyntaxError" \/ f.value.kind = "null"
           THEN /\ loadErrors' = loadErrors + 1
                /\ UNCHANGED << resume, localStorage, reloads >>
           ELSE LET loaded == safeLoadResume(resume, f.value)
                IN  /\ resume' = loaded.resume
                    /\ IF loaded.raised
                       THEN /\ loadErrors' = loadErrors + 1
                            /\ UNCHANGED << localStorage, reloads >>
                       ELSE /\ localStorage' = resumeToSave(resume')
                            /\ reloads' = reloads + 1
                            /\ UNCHANGED loadErrors
    /\ UNCHANGED << currentPdfBlob, timerVars, clock, today, formVars, downloaded,
                    dateStr, formatted, exported >>

\* downloadJson, app.js:746-763
DownloadJson ==
    /\ reloads = 0
    /\ exported' = resumeToSave(resume)
    /\ UNCHANGED << resume, currentPdfBlob, timerVars, clock, today, formVars,
                    localStorage, downloaded, dateStr, formatted, file, loadErrors, reloads >>

\* The page until it is reloaded: entries are typed and saved, files are
\* loaded, the resume is exported.
EditsBeforeReload ==
    /\ reloads = 0
    /\ EditForm \/ SaveItem

NextImport ==
    \/ EditsBeforeReload
    \/ LoadJson
    \/ DownloadJson

SpecImport == InitPage /\ [][NextImport]_vars

(***************************************************************************)
(* The debounce of updatePreview and the download                          *)
(***************************************************************************)
\* A step of updatePreview() that is not immediate: it sets a new timer
Schedules == nextTimerId' = nextTimerId + 1

\* A step of a timer's callback
Regenerates == timerRuns' = timerRuns + 1

\* C1: at most one regeneration timer is pending at any time.  Every
\* updatePreview() that is not immediate cancels the timer that was pending, if
\* any, and leaves its own timer, due 1000 ms later, as the only one; every
\* run of generatePdf by a timer is made by the timer of the last call.  Each
\* timer set so far has therefore been cancelled, has run or is the pending
\* one: of a burst of k calls, k - 1 timers are cancelled and one runs.
C1_OnePendingTimer ==
    /\ [](/\ Cardinality(timers) <= 1
          /\ \A t \in timers : t.id = updateTimeout
          /\ timerRuns + cancelled + Cardinality(timers) = nextTimerId - 1)
    /\ [][/\ Schedules =>
              /\ timers' = {[id |-> nextTimerId, due |-> clock + Delay]}
              /\ updateTimeout' = nextTimerId
              /\ cancelled' = cancelled + Cardinality(timers)
              /\ timerRuns' = timerRuns
          /\ Regenerates =>
              /\ \E t \in timers : t.id = updateTimeout /\ t.due <= clock
              /\ timers' = {}
              /\ currentPdfBlob' = generatePdf(resume, today)]_vars

\* A burst of two calls is over: the first timer was cancelled while it was
\* pending, the second one has run, and nothing is pending.
C1_Witness ==
    /\ nextTimerId = 3
    /\ cancelled = 1
    /\ timerRuns = 1
    /\ timers = {}

\* C2: what downloadPdf hands to the browser is the PDF of the resume as it
\* stands at the moment of the call, also while a timer of updatePreview is
\* still pending.
C2_DownloadIsCurrent ==
    downloaded # NoRecord => downloaded.blob = generatePdf(downloaded.resume, today)

\* The case of C2 that the code gets right: with no timer pending and the
\* resume untouched since the last run of generatePdf, the download is the
\* PDF of the resume.
C2_DownloadCurrentWhenBlobMissing ==
    [][(currentPdfBlob = Null /\ downloaded' # downloaded)
          => downloaded'.blob = generatePdf(resume, today)]_vars

(***************************************************************************)
(* Import and export                                                       *)
(***************************************************************************)
\* The keys of an item are camelCase property names: they hold no "-"
CamelCaseItem(item) ==
    /\ item.kind = "object"
    /\ \A i \in 1..Len(item.entries) :
           \A k \in 1..Len(item.entries[i].key) : item.entries[i].key[k] # "-"

CamelCaseArray(field) ==
    field.kind = "array" /\ \A i \in 1..Len(field.items) : CamelCaseItem(field.items[i])

\* The file holds a document of the persisted schema
InSchema(f) ==
    /\ f # NoRecord
    /\ f.parse = "ok"
    /\ f.value.kind = "object"
    /\ \A t \in {f.value.version, f.value.name, f.value.email, f.value.phone,
                 f.value.additionalText} : t # Undefined
    /\ \A a \in {f.value.contacts, f.value.education, f.value.experience, f.value.tags} :
           CamelCaseArray(a)

ItemsAsParsed(field) == [i \in 1..Len(field.items) |-> parsedItem(field.items[i])]

\* The nine fields of the document of a file, but for the version
FieldsButVersion(v) ==
    [name |-> v.name, email |-> v.email, phone |-> v.phone,
     additionalText |-> v.additionalText, contacts |-> ItemsAsParsed(v.contacts),
     education |-> ItemsAsParsed(v.education),
     experience |-> ItemsAsParsed(v.experience), tags |-> ItemsAsParsed(v.tags)]

ButVersion(document) == [f \in (DOMAIN document) \ {"version"} |-> document[f]]

\* C12: once a document D of the schema with camelCase property names has
\* been loaded, what saveResumeToLocalStorage wrote and what downloadJson
\* exports of the resume are equal to D in each of the nine fields, the
\* arrays in the order of D.
C12_RoundTrip ==
    (reloads = 1 /\ InSchema(file)) =>
        /\ ButVersion(localStorage) = FieldsButVersion(file.value)
        /\ ButVersion(resumeToSave(resume)) = FieldsButVersion(file.value)
        /\ localStorage.version = file.value.version
        /\ resumeToSave(resume).version = file.value.version

\* What does hold: the round trip keeps every field but the version
C12_RoundTripButVersion ==
    (reloads = 1 /\ InSchema(file)) =>
        /\ ButVersion(localStorage) = FieldsButVersion(file.value)
        /\ ButVersion(resumeToSave(resume)) = FieldsButVersion(file.value)

\* A step of reader.onload of loadJson
Loads == loadErrors' # loadErrors \/ reloads' # reloads

\* An array field that cannot be processed: not an array, or with a null item
C16_BadArray(field) ==
    \/ field.kind = "number"
    \/ field.kind = "array" /\ \E i \in 1..Len(field.items) : field.items[i].kind = "null"

\* The load of the file fails: its text is no JSON, or it parses to a value
\* whose fields cannot be processed
C16_Fails(f) ==
    \/ f.parse = "SyntaxError"
    \/ f.value.kind = "null"
    \/ \E a \in {f.value.contacts, f.value.education, f.value.experience} : C16_BadArray(a)
    \/ f.value.tags.kind = "number"

\* C16: a load that fails is reported and leaves the resume as it was,
\* localStorage unwritten, the page not reloaded and no layout made or
\* scheduled; a load that succeeds replaces the resume, writes it to
\* localStorage and reloads the page.
C16_ImportAtomic ==
    [][Loads =>
          IF C16_Fails(file')
          THEN /\ loadErrors' = loadErrors + 1
               /\ resume' = resume
               /\ localStorage' = localStorage
               /\ reloads' = reloads
               /\ currentPdfBlob' = currentPdfBlob
               /\ timers' = timers
          ELSE /\ loadErrors' = loadErrors
               /\ resume'.name = OrElse(file'.value.name, <<>>)
               /\ Len(resume'.experience) = Len(itemsOf(file'.value.experience))
               /\ localStorage' = resumeToSave(resume')
               /\ reloads' = reloads + 1]_vars

\* What does hold: a load that fails is reported, writes nothing to
\* localStorage, reloads nothing and makes or schedules no layout, and it
\* leaves the resume as it was when the text is no JSON or parses to null.
C16_FailedImportWritesNothing ==
    [][(Loads /\ C16_Fails(file')) =>
          /\ loadErrors' = loadErrors + 1
          /\ localStorage' = localStorage
          /\ reloads' = reloads
          /\ currentPdfBlob' = currentPdfBlob
          /\ timers' = timers
          /\ (file'.parse = "SyntaxError" \/ file'.value.kind = "null")
                 => resume' = resume]_vars

(***************************************************************************)
(* The form editor                                                         *)
(***************************************************************************)
\* currentItem is null or one of the records of the collection
C17_Selected ==
    \/ currentItem = NoItem
    \/ \E i \in 1..Len(resume.experience) : resume.experience[i].oid = currentItem

\* A save with nothing selected: one record more, made of the values of the
\* form, and selected
C17_Added ==
    LET old == resume.experience
        new == resume'.experience
    IN  /\ Len(new) = Len(old) + 1
        /\ SubSeq(new, 1, Len(old)) = old
        /\ StripOid(new[Len(new)]) = form
        /\ \A i \in 1..Len(old) : old[i].oid # new[Len(new)].oid
        /\ currentItem' = new[Len(new)].oid

\* A save with a record selected: that record, at its place, takes the
\* values of the form; the others and the size stay
C17_Updated ==
    LET old == resume.experience
        new == resume'.experience
    IN  /\ Len(new) = Len(old)
        /\ \A i \in 1..Len(old) :
              IF old[i].oid = currentItem
              THEN new[i].oid = currentItem /\ StripOid(new[i]) = form
              ELSE new[i] = old[i]
        /\ currentItem' = currentItem

\* A delete with a record selected: that record, and no other, is gone and
\* nothing is selected
C17_Removed ==
    LET old == resume.experience
        new == resume'.experience
    IN  /\ \E k \in 1..Len(old) :
              /\ old[k].oid = currentItem
              /\ new = SubSeq(old, 1, k - 1) \o SubSeq(old, k + 1, Len(old))
        /\ currentItem' = NoItem

\* The resume is written to localStorage and a preview is scheduled, none
\* generated
C17_SavedAndScheduled ==
    /\ localStorage' = resumeToSave(resume')
    /\ \A t \in timers : t.id # updateTimeout'
    /\ [id |-> updateTimeout', due |-> clock + Delay] \in timers'
    /\ currentPdfBlob' = currentPdfBlob

C17_Step ==
    /\ C17_Selected'
    /\ (SaveItem /\ currentItem = NoItem) => C17_Added
    /\ (SaveItem /\ currentItem # NoItem) => C17_Updated
    /\ (DeleteItem /\ currentItem # NoItem) => C17_Removed
    /\ (DeleteItem /\ currentItem = NoItem)
       => UNCHANGED << resume, formVars, localStorage, timerVars, currentPdfBlob >>
    /\ (SaveItem \/ (DeleteItem /\ currentItem # NoItem)) => C17_SavedAndScheduled
    /\ (SelectEntry \/ NewEntry) => UNCHANGED << resume, localStorage, timerVars >>

====
